---- MODULE Spec2Model ----
(***************************************************************************)
(* A model of the verification harness protocol of cs329_hw:               *)
(*   methods/verifiers.py  HumanEvalVerifier (harness builders, marker     *)
(*                         parser, verify)                                 *)
(*   run/sandbox.py        run_python                                      *)
(*   run/sandbox_docker.py run_python_in_docker                            *)
(*                                                                         *)
(* Text is a sequence of characters.  Every character is a one-character   *)
(* string, except that each reserved marker word of the protocol           *)
(* ("__RESULT__", "__COUNTS__", "__CASE__", "__EXC__", "__TIME__") is one  *)
(* element of the sequence: no claim depends on a marker word being split. *)
(***************************************************************************)
EXTENDS Integers, Sequences, FiniteSets, TLC

VARIABLES
    pc,       \* where the modelled call stands
    call,     \* verify's arguments: the candidate code and the test suite
    child,    \* the harness program's interpreter state in the child process
    proc,     \* the child process: running, hung, exited (with its return code)
    stdout,   \* the text the child has written to its standard output
    flushed,  \* how much of stdout has left the child's buffer for the pipe
    exec,     \* the ExecResult the runner returned
    ret,      \* the dict verify returned
    parsed,   \* (passed_all, num_passed, num_total) as _parse_marker_summary returns it
    run,      \* the arguments and the platform of one run_python / run_python_in_docker call
    clock,    \* wall-clock and CPU time of that call, in seconds
    runner_calls, \* how often the verify call at hand has invoked self.runner
    first,    \* the verdict of an earlier verify call with the same arguments
    tmpfs,    \* the host's temporary directory: the scratch directories in it
    conc,     \* the state of each of the executor calls that run side by side
    dedup     \* a list of generated test cases and what _deduplicate_test_cases made of it

vars ==
    <<pc, call, child, proc, stdout, flushed, exec, ret, parsed, run, clock,
      runner_calls, first, tmpfs, conc, dedup>>

(***************************************************************************)
(* Bounds of the model.                                                    *)
(***************************************************************************)
MaxLines == 3

MaxCases == 2

MaxSteps == 2

MaxTimeout == 2

MaxCpuSeconds == 3

MaxDirs == 2

MaxGenerated == 3

(***************************************************************************)
(* Python's str operations, as far as the parser uses them.                *)
(***************************************************************************)
NL == "\n"

EmptyText == <<>>

\* Python's None where a text is expected.
NONE == <<"None">>

Whitespace == {" ", "\t"}

Digits == <<"0", "1", "2", "3", "4", "5", "6", "7", "8", "9">>

DigitChars == {Digits[i] : i \in 1..10}

DigitValue(c) == (CHOOSE i \in 1..10 : Digits[i] = c) - 1

\* s[i..] of Python, 1-based: the suffix of s that starts at position i.
Drop(s, i) == SubSeq(s, i, Len(s))

\* str.lstrip() / str.rstrip() / str.strip() with no argument.
RECURSIVE lstrip(_)
lstrip(s) ==
    IF s # <<>> /\ Head(s) \in Whitespace THEN lstrip(Tail(s)) ELSE s

RECURSIVE rstrip(_)
rstrip(s) ==
    IF s # <<>> /\ s[Len(s)] \in Whitespace
    THEN rstrip(SubSeq(s, 1, Len(s) - 1))
    ELSE s

strip(s) == rstrip(lstrip(s))

\* str.startswith(prefix)
startswith(s, prefix) ==
    /\ Len(s) >= Len(prefix)
    /\ SubSeq(s, 1, Len(prefix)) = prefix

\* `sub in s` for strings
contains(s, sub) ==
    \E i \in 1..(Len(s) - Len(sub) + 1) : SubSeq(s, i, i + Len(sub) - 1) = sub

\* The position of the first occurrence of character c in s, 0 when absent.
IndexOf(s, c) ==
    IF \E i \in 1..Len(s) : s[i] = c
    THEN CHOOSE i \in 1..Len(s) : s[i] = c /\ \A j \in 1..(i - 1) : s[j] # c
    ELSE 0

\* str.split(c): the pieces of s between the occurrences of character c.
RECURSIVE split(_, _)
split(s, c) ==
    LET i == IndexOf(s, c)
    IN  IF i = 0 THEN <<s>>
        ELSE <<SubSeq(s, 1, i - 1)>> \o split(Drop(s, i + 1), c)

\* str.split(c, 1)[1] for a string that holds c: what follows the first c.
AfterFirst(s, c) == Drop(s, IndexOf(s, c) + 1)

\* str.splitlines() over "\n": a final line break opens no further line.
RECURSIVE splitlines(_)
splitlines(s) ==
    IF s = <<>> THEN <<>>
    ELSE LET i == IndexOf(s, NL)
         IN  IF i = 0 THEN <<s>>
             ELSE <<SubSeq(s, 1, i - 1)>> \o splitlines(Drop(s, i + 1))

\* The text int() accepts after strip(): an optional sign and decimal digits.
AllDigits(s) == s # <<>> /\ \A i \in 1..Len(s) : s[i] \in DigitChars

IsIntText(s) ==
    LET t == strip(s)
    IN  IF t # <<>> /\ Head(t) \in {"-", "+"} THEN AllDigits(Tail(t))
        ELSE AllDigits(t)

RECURSIVE DigitsValue(_)
DigitsValue(s) ==
    IF s = <<>> THEN 0
    ELSE 10 * DigitsValue(SubSeq(s, 1, Len(s) - 1)) + DigitValue(s[Len(s)])

\* int(s) for a text IsIntText accepts.
int(s) ==
    LET t == strip(s)
    IN  IF Head(t) = "-" THEN 0 - DigitsValue(Tail(t))
        ELSE IF Head(t) = "+" THEN DigitsValue(Tail(t))
        ELSE DigitsValue(t)

\* str(n) for an integer n.
RECURSIVE NatStr(_)
NatStr(n) ==
    IF n < 10 THEN <<Digits[n + 1]>>
    ELSE NatStr(n \div 10) \o <<Digits[(n % 10) + 1]>>

str(n) == IF n < 0 THEN <<"-">> \o NatStr(0 - n) ELSE NatStr(n)

\* print(a, b, ...): the arguments joined by one space, then a line break.
RECURSIVE JoinSp(_)
JoinSp(parts) ==
    IF parts = <<>> THEN <<>>
    ELSE IF Len(parts) = 1 THEN parts[1]
    ELSE parts[1] \o <<" ">> \o JoinSp(Tail(parts))

print(parts) == JoinSp(parts) \o <<NL>>

(***************************************************************************)
(* The marker parser: HumanEvalVerifier._parse_marker_summary.             *)
(***************************************************************************)
RESULT_PREFIX == <<"__RESULT__", "=">>

COUNTS_PREFIX == <<"__COUNTS__", "=">>

OK_TEXT == <<"O", "K">>

FAIL_TEXT == <<"F", "A", "I", "L">>

ResultLine(v) == RESULT_PREFIX \o v

\* The try block of a __COUNTS__ line (verifiers.py 215-221), statement by
\* statement: the two assignments are separate statements, so a ValueError
\* raised by the second int() leaves the first assignment done.
ParseCountsLine(acc, line) ==
    LET tail  == AfterFirst(line, "=")
        parts == split(strip(tail), "/")
    IN  IF Len(parts) # 2 THEN acc
        ELSE IF ~IsIntText(parts[1]) THEN acc
        ELSE IF ~IsIntText(parts[2])
             THEN [acc EXCEPT !.num_passed = int(parts[1])]
        ELSE [acc EXCEPT !.num_passed = int(parts[1]),
                         !.num_total  = int(parts[2])]

\* ParseLine with the marker words looked for anywhere in the line.
ParseLineAnywhere(acc, rawline) ==
    LET line == strip(rawline)
    IN  IF contains(line, RESULT_PREFIX)
        THEN [acc EXCEPT !.passed_all = (strip(AfterFirst(line, "=")) = OK_TEXT)]
        ELSE IF contains(line, COUNTS_PREFIX)
        THEN ParseCountsLine(acc, line)
        ELSE acc

\* One iteration of the loop over stdout.splitlines() (verifiers.py 209-221).
ParseLine(acc, rawline) ==
    LET line == strip(rawline)
    IN  IF startswith(line, RESULT_PREFIX)
        THEN [acc EXCEPT !.passed_all = (strip(AfterFirst(line, "=")) = OK_TEXT)]
        ELSE IF startswith(line, COUNTS_PREFIX)
        THEN ParseCountsLine(acc, line)
        ELSE acc

RECURSIVE ParseLines(_, _)
ParseLines(acc, lines) ==
    IF lines = <<>> THEN acc
    ELSE ParseLines(ParseLine(acc, Head(lines)), Tail(lines))

\* result_line_seen (verifiers.py 226)
result_line_seen(text) ==
    \E i \in 1..Len(splitlines(text)) : contains(splitlines(text)[i], RESULT_PREFIX)

ParseDefaults == [passed_all |-> FALSE, num_passed |-> 0, num_total |-> 0]

\* parse_marker_summary with the counts deciding whenever there is a total.
parse_marker_summary_counts_decide(text) ==
    IF text = NONE \/ text = EmptyText THEN ParseDefaults
    ELSE LET acc == ParseLines(ParseDefaults, splitlines(text))
         IN  IF acc.num_total > 0
             THEN [acc EXCEPT !.passed_all = (acc.num_passed = acc.num_total)]
             ELSE acc

\* `if not stdout` (verifiers.py 202) holds of None and of the empty text.
parse_marker_summary(text) ==
    IF text = NONE \/ text = EmptyText THEN ParseDefaults
    ELSE LET acc == ParseLines(ParseDefaults, splitlines(text))
         IN  IF acc.num_total > 0 /\ ~result_line_seen(text)
             THEN [acc EXCEPT !.passed_all = (acc.num_passed = acc.num_total)]
             ELSE acc

(***************************************************************************)
(* The ExecResult of a finished child: run_python, sandbox.py 141-158.     *)
(***************************************************************************)
\* timeout_s: int = 2
DefaultTimeout == 2

\* The signal of the kernel's kill at the hard RLIMIT_CPU (sandbox.py 146).
SIGKILL == 9

\* Signals a program dies of by itself: SIGABRT, SIGSEGV.
OwnSignals == {6, 11}

TIMEOUT == <<"timeout">>

\* exc_reason with a death by signal left without a reason.
exc_reason_signal_unnamed(returncode, is_posix) ==
    IF returncode <= 0 THEN NONE
    ELSE <<"returncode", ":">> \o str(returncode)

\* exc_reason of run_python for a child that ended with `returncode`.
exc_reason(returncode, is_posix) ==
    IF returncode = 0 THEN NONE
    ELSE IF is_posix /\ returncode < 0
         THEN <<"signal", ":">> \o str(0 - returncode)
    ELSE <<"returncode", ":">> \o str(returncode)

ExecResult(ok, out, err, exception, time_s) ==
    [ok |-> ok, stdout |-> out, stderr |-> err, exception |-> exception,
     time_s |-> time_s]

\* The ExecResult run_python returns when subprocess.run returned.
CompletedResult(returncode, out, err, is_posix, time_s) ==
    ExecResult(returncode = 0, out, err, exc_reason(returncode, is_posix), time_s)

\* `x or ""` for a captured output x that is None or a text.
OrEmpty(x) == IF x = NONE \/ x = EmptyText THEN EmptyText ELSE x

\* TimeoutResult with the captured output dropped.
TimeoutResultDropsOutput(e_stdout, e_stderr, time_s) ==
    ExecResult(FALSE, EmptyText, EmptyText, TIMEOUT, time_s)

\* The ExecResult returned on subprocess.TimeoutExpired (sandbox.py 160-168,
\* sandbox_docker.py 73-74); e.stdout and e.stderr are what was read from the
\* pipes before the kill, None when nothing was.
TimeoutResult(e_stdout, e_stderr, time_s) ==
    ExecResult(FALSE, OrEmpty(e_stdout), OrEmpty(e_stderr), TIMEOUT, time_s)

\* The exception text of the container variant's early return.
DOCKER_NOT_FOUND == <<"docker_not_found">>

\* Exceptions the host raises inside the try block of an executor.
HostErrors == {"MemoryError", "OSError"}

\* The ExecResult of the except clauses after TimeoutExpired: run_python has
\* one for MemoryError and one for Exception (sandbox.py 169-186), the
\* container variant one for Exception (sandbox_docker.py 75-76); stderr is
\* str(e).
ExceptionResult(executor, e, time_s) ==
    IF executor = "local" /\ e = "MemoryError"
    THEN ExecResult(FALSE, EmptyText, EmptyText, <<"memory_error">>, time_s)
    ELSE ExecResult(FALSE, EmptyText, <<e>>, <<"exception", ":", e>>, time_s)

\* TimeoutExpired.stdout for the text read from a pipe.
PipeRead(text) == IF text = EmptyText THEN NONE ELSE text

\* The arguments of one executor call and the platform it runs on;
\* cpu_seconds = 0 stands for None.  docker_bin says whether
\* shutil.which("docker") found the binary, tmp whether the call has created
\* its TemporaryDirectory.
Run(executor, is_posix, timeout_s, cpu_seconds, limited, program, docker_bin, tmp) ==
    [executor |-> executor, is_posix |-> is_posix, timeout_s |-> timeout_s,
     cpu_seconds |-> cpu_seconds, limited |-> limited, program |-> program,
     docker_bin |-> docker_bin, tmp |-> tmp]

Program(prints, flushes, then) ==
    [prints |-> prints, flushes |-> flushes, then |-> then]

NoRun ==
    Run("none", FALSE, 0, 0, FALSE, Program(EmptyText, FALSE, "exit0"), FALSE, FALSE)

Clock(now, cpu, deadline) == [now |-> now, cpu |-> cpu, deadline |-> deadline]

NoClock == Clock(0, 0, 0)

NoExec == ExecResult(FALSE, EmptyText, EmptyText, NONE, 0)

(***************************************************************************)
(* The candidate code and the test suites verify is called with.           *)
(*                                                                         *)
(* A candidate is any Python text; the model draws its behaviour: what its *)
(* top level does when the harness program starts (finishes, raises,       *)
(* never returns), what it prints there, whether it flushes its output,    *)
(* and what a call of function_name does for each argument list.           *)
(***************************************************************************)
ArgsSet == {<<1, 2>>, <<2, 2>>}

RetValues == {3, 4}

ExpectedValues == {3, 5}

Return(v) == [kind |-> "return", value |-> v]

Raise == [kind |-> "raise", value |-> 0]

Exit == [kind |-> "exit", value |-> 0]

Hang == [kind |-> "hang", value |-> 0]

CallOutcomes == {Return(v) : v \in RetValues} \cup {Raise, Exit, Hang}

\* What the candidate's top level may print: nothing, a line, marker lines
\* of its own, a text with no line break at its end.
CandidatePrints ==
    {EmptyText,
     <<"__COUNTS__", "=", " ", "2", " ", "/", " ", "1", NL>>,
     <<"__RESULT__", "=", "O", "K", NL>>,
     <<"x">>}

TopOutcomes == {"ok", "raise", "hang"}

Candidate(top, prints, flushes, f) ==
    [top |-> top, prints |-> prints, flushes |-> flushes, f |-> f]

AlwaysRaise == [a \in ArgsSet |-> Raise]

Candidates ==
    {Candidate("ok", p, fl, f) :
        p \in CandidatePrints, fl \in BOOLEAN, f \in [ArgsSet -> CallOutcomes]}
    \cup {Candidate(t, p, fl, AlwaysRaise) :
        t \in TopOutcomes \ {"ok"}, p \in CandidatePrints, fl \in BOOLEAN}

\* TestCase (verifiers.py 4-9); name and kwargs play no part in the harness
\* beyond being passed on, and are left out of the verify model.
TestCase(args, expected) == [args |-> args, expected |-> expected]

TestCases == {TestCase(a, e) : a \in ArgsSet, e \in ExpectedValues}

SeqsUpTo(S, n) == UNION {[1..k -> S] : k \in 0..n}

\* A free-form snippet's check routine, as the steps it takes: a call of
\* assert_ with a true or a false condition, an uncaught exception (a failing
\* assert statement, a NameError), sys.exit, a step that never returns.
CheckSteps == {"assert_true", "assert_false", "raise", "exit", "hang"}

NoCall == [kind |-> "none", cand |-> Candidate("ok", EmptyText, FALSE, AlwaysRaise),
           cases |-> <<>>, steps |-> <<>>]

StructuredCall(cand, cases) ==
    [kind |-> "list", cand |-> cand, cases |-> cases, steps |-> <<>>]

FreeFormCall(cand, steps) ==
    [kind |-> "str", cand |-> cand, cases |-> <<>>, steps |-> steps]

(***************************************************************************)
(* The harness programs, as the child process executes them.               *)
(***************************************************************************)
\* The interpreter state of the harness: where it stands and its globals.
ChildState(phase, idx, np, nt, cid) ==
    [phase |-> phase, idx |-> idx, NUM_PASSED |-> np, NUM_TOTAL |-> nt,
     CASE_ID |-> cid]

NoChild == ChildState("none", 0, 0, 0, 0)

Proc(state, returncode) == [state |-> state, returncode |-> returncode]

NoProc == Proc("none", 0)

\* repr(__res) for the f-string of verifiers.py 166
EXC_TAG == <<"'", "__EXC__", ":", "ValueError", ":", "x", "'">>

\* StructuredCaseLine with the cases numbered from 1.
StructuredCaseLineOneBased(i, ok, res, expected) ==
    print(<<<<"__CASE__">>, str(i + 1), str(IF ok THEN 1 ELSE 0), res, str(expected)>>)

\* print('__CASE__', i, int(__ok), repr(__res), repr(expected))  (line 168)
StructuredCaseLine(i, ok, res, expected) ==
    print(<<<<"__CASE__">>, str(i), str(IF ok THEN 1 ELSE 0), res, str(expected)>>)

\* print("__CASE__", __CASE_ID__, "PASS") and its FAIL twin (lines 125, 127),
\* the message being empty.
FreeFormCaseLine(id, cond) ==
    IF cond THEN print(<<<<"__CASE__">>, str(id), <<"P", "A", "S", "S">>>>)
    ELSE print(<<<<"__CASE__">>, str(id), FAIL_TEXT, EmptyText>>)

\* print("__EXC__=", type(e).__name__, str(e))  (line 139)
ExcLine == print(<<<<"__EXC__", "=">>, <<"ValueError">>, <<"x">>>>)

\* print("__TIME__=", __elapsed)
TimeLine == print(<<<<"__TIME__", "=">>, <<"0", ".", "0">>>>)

\* StructuredTail with the passed count printed on both sides of the "/".
StructuredTailPassedTwice(np, nt) ==
    print(<<ResultLine(IF np = nt THEN OK_TEXT ELSE FAIL_TEXT)>>)
    \o print(<<COUNTS_PREFIX, str(np), <<"/">>, str(np)>>)
    \o TimeLine

\* The three aggregate prints of the structured harness (lines 182-184).
StructuredTail(np, nt) ==
    print(<<ResultLine(IF np = nt THEN OK_TEXT ELSE FAIL_TEXT)>>)
    \o print(<<COUNTS_PREFIX, str(np), <<"/">>, str(nt)>>)
    \o TimeLine

\* The three aggregate prints of the free-form harness (lines 142-144).
FreeFormTail(np, nt) ==
    print(<<ResultLine(IF np # 0 /\ np = nt THEN OK_TEXT ELSE FAIL_TEXT)>>)
    \o print(<<COUNTS_PREFIX, str(np), <<"/">>, str(nt)>>)
    \o TimeLine

\* CaseResult with every returned value taken as the expected one.
CaseResultNoCompare(outcome, expected) ==
    IF outcome.kind = "return"
    THEN [ok |-> TRUE, res |-> str(outcome.value)]
    ELSE [ok |-> FALSE, res |-> EXC_TAG]

\* CaseResult with __ok left true in the except clause.
CaseResultRaisePasses(outcome, expected) ==
    IF outcome.kind = "return"
    THEN [ok |-> (outcome.value = expected), res |-> str(outcome.value)]
    ELSE [ok |-> TRUE, res |-> EXC_TAG]

\* One generated case block (verifiers.py 162-167): the guarded call and the
\* comparison; `except Exception` catches what the call raises.
CaseResult(outcome, expected) ==
    IF outcome.kind = "return"
    THEN [ok |-> (outcome.value = expected), res |-> str(outcome.value)]
    ELSE [ok |-> FALSE, res |-> EXC_TAG]

\* The phase that follows case or step idx of a list of n.
AfterItem(kind, idx, n) ==
    IF idx < n THEN (IF kind = "list" THEN "cases" ELSE "check") ELSE "tail"

(***************************************************************************)
(* HumanEvalVerifier.verify: one call, the child it runs through the       *)
(* injected runner, and the dict it returns.                               *)
(***************************************************************************)
NoRet ==
    [passed_all |-> FALSE, num_passed |-> 0, num_total |-> 0,
     stdout |-> EmptyText, stderr |-> EmptyText, exception |-> NONE, time_s |-> 0]

\* The state of the executor calls that run side by side and of the
\* temporary directory they share.
CallIds == {1, 2}

DirNames == 1..MaxDirs

\* A directory of the temporary directory: whether it exists, whether main.py
\* has been written into it, and the text of main.py.
Dir(exists, written, main) == [exists |-> exists, written |-> written, main |-> main]

NoProgram == Program(EmptyText, FALSE, "exit0")

NoDir == Dir(FALSE, FALSE, NoProgram)

NoDirs == [d \in DirNames |-> NoDir]

\* One call: where it stands, its arguments, its directory, the text its
\* child has loaded, the child process and the ExecResult returned.
ConcCall(cpc, executor, code, tmp, text, cproc, result) ==
    [pc |-> cpc, executor |-> executor, code |-> code, tmp |-> tmp,
     text |-> text, proc |-> cproc, result |-> result]

NoConcCall == ConcCall("idle", "none", NoProgram, 0, NoProgram, NoProc, NoExec)

NoCalls == [i \in CallIds |-> NoConcCall]

\* A list of test cases, the list _deduplicate_test_cases returned for it,
\* and the list it returned when called on that.
Dedup(cases, uniq, twice) == [cases |-> cases, uniq |-> uniq, twice |-> twice]

NoDedup == Dedup(<<>>, <<>>, <<>>)

\* What a caller keeps of one verify call to compare a second one with: the
\* verdict fields, and whether the child ended by itself.
First(r, ended) ==
    [passed_all |-> r.passed_all, num_passed |-> r.num_passed,
     num_total |-> r.num_total, ended |-> ended, set |-> TRUE]

NoFirst == [First(NoRet, FALSE) EXCEPT !.set = FALSE]

VerifyInit ==
    /\ pc = "idle"
    /\ call = NoCall
    /\ child = NoChild
    /\ proc = NoProc
    /\ stdout = EmptyText
    /\ flushed = 0
    /\ exec = NoExec
    /\ ret = NoRet
    /\ parsed = ParseDefaults
    /\ run = NoRun
    /\ clock = NoClock
    /\ runner_calls = 0
    /\ first = NoFirst
    /\ tmpfs = NoDirs
    /\ conc = NoCalls
    /\ dedup = NoDedup

\* verify, up to the call of the runner (verifiers.py 56-58, 70-72): the
\* harness is built and self.runner is called with it, which starts it in a
\* child process.
Spawn(c) ==
    /\ call' = c
    /\ pc' = "child"
    /\ runner_calls' = runner_calls + 1
    /\ child' = ChildState("import", 0, 0, 0, 0)
    /\ proc' = Proc("running", 0)
    /\ stdout' = EmptyText
    /\ flushed' = 0
    /\ UNCHANGED <<exec, ret, parsed, run, clock, first, tmpfs, conc, dedup>>

VerifyStructured ==
    /\ pc = "idle"
    /\ \E cand \in Candidates, cases \in SeqsUpTo(TestCases, MaxCases) :
          Spawn(StructuredCall(cand, cases))

VerifyFreeForm ==
    /\ pc = "idle"
    /\ \E cand \in Candidates, steps \in SeqsUpTo(CheckSteps, MaxSteps) :
          /\ cand.f = AlwaysRaise
          /\ \A i \in 1..(Len(steps) - 1) : steps[i] \in {"assert_true", "assert_false"}
          /\ Spawn(FreeFormCall(cand, steps))

\* verify with a test_suite that is neither a str nor a list (line 85).
VerifyTypeError ==
    /\ pc = "idle"
    /\ pc' = "raised"
    /\ UNCHANGED <<call, child, proc, stdout, flushed, exec, ret, parsed, run, clock, runner_calls, first, tmpfs, conc, dedup>>

\* The candidate code at the head of the harness program runs.
ChildImport ==
    /\ pc = "child" /\ proc.state = "running" /\ child.phase = "import"
    /\ LET cand == call.cand
           out  == stdout \o cand.prints
           n    == IF call.kind = "list" THEN Len(call.cases) ELSE Len(call.steps)
       IN  /\ stdout' = out
           /\ IF cand.top = "ok"
              THEN /\ child' = ChildState(AfterItem(call.kind, 0, n), 1, 0,
                                          IF call.kind = "list" THEN n ELSE 0, 0)
                   /\ proc' = proc
                   /\ flushed' = IF cand.flushes THEN Len(out) ELSE flushed
              ELSE IF cand.top = "raise"
              THEN /\ child' = [child EXCEPT !.phase = "died"]
                   /\ proc' = Proc("exited", 1)
                   /\ flushed' = Len(out)
              ELSE /\ child' = child
                   /\ proc' = Proc("hung", 0)
                   /\ flushed' = IF cand.flushes THEN Len(out) ELSE flushed
    /\ UNCHANGED <<pc, call, exec, ret, parsed, run, clock, runner_calls, first, tmpfs, conc, dedup>>

\* One case block of the structured harness (verifiers.py 162-170).
ChildCase ==
    /\ pc = "child" /\ proc.state = "running" /\ child.phase = "cases"
    /\ LET tc      == call.cases[child.idx]
           outcome == call.cand.f[tc.args]
           r       == CaseResult(outcome, tc.expected)
           fl      == IF call.cand.flushes THEN Len(stdout) ELSE flushed
       IN  IF outcome.kind = "exit"
           THEN /\ proc' = Proc("exited", 0)
                /\ child' = [child EXCEPT !.phase = "died"]
                /\ flushed' = Len(stdout)
                /\ stdout' = stdout
           ELSE IF outcome.kind = "hang"
           THEN /\ proc' = Proc("hung", 0)
                /\ flushed' = fl
                /\ UNCHANGED <<child, stdout>>
           ELSE /\ stdout' = stdout \o
                       StructuredCaseLine(child.idx - 1, r.ok, r.res, tc.expected)
                /\ child' = [child EXCEPT
                       !.phase = AfterItem("list", child.idx, Len(call.cases)),
                       !.idx = child.idx + 1,
                       !.NUM_PASSED = IF r.ok THEN child.NUM_PASSED + 1
                                      ELSE child.NUM_PASSED]
                /\ flushed' = fl
                /\ proc' = proc
    /\ UNCHANGED <<pc, call, exec, ret, parsed, run, clock, runner_calls, first, tmpfs, conc, dedup>>

\* log_assert with the total counted inside the `if cond` branch.
log_assert_total_on_pass(c, cond) ==
    [c EXCEPT !.CASE_ID = c.CASE_ID + 1,
              !.NUM_TOTAL = IF cond THEN c.NUM_TOTAL + 1 ELSE c.NUM_TOTAL,
              !.NUM_PASSED = IF cond THEN c.NUM_PASSED + 1 ELSE c.NUM_PASSED]

\* __log_assert__ (verifiers.py 119-127)
log_assert(c, cond) ==
    [c EXCEPT !.CASE_ID = c.CASE_ID + 1,
              !.NUM_TOTAL = c.NUM_TOTAL + 1,
              !.NUM_PASSED = IF cond THEN c.NUM_PASSED + 1 ELSE c.NUM_PASSED]

\* except_check with the counters set back to 0.
except_check_resets(c) ==
    [c EXCEPT !.phase = "tail", !.NUM_PASSED = 0, !.NUM_TOTAL = 0]

\* The except clause of verifiers.py 138-139: the exception ends check(), the
\* globals stay as they are and the program goes on to its aggregate prints.
except_check(c) == [c EXCEPT !.phase = "tail"]

\* One step of check(function_name) under the try of verifiers.py 136-139.
ChildCheckStep ==
    /\ pc = "child" /\ proc.state = "running" /\ child.phase = "check"
    /\ LET step == call.steps[child.idx]
           next == AfterItem("str", child.idx, Len(call.steps))
           fl   == IF call.cand.flushes THEN Len(stdout) ELSE flushed
       IN  IF step \in {"assert_true", "assert_false"}
           THEN LET c == log_assert(child, step = "assert_true")
                IN  /\ child' = [c EXCEPT !.phase = next, !.idx = child.idx + 1]
                    /\ stdout' = stdout \o
                           FreeFormCaseLine(c.CASE_ID, step = "assert_true")
                    /\ flushed' = fl
                    /\ proc' = proc
           ELSE IF step = "raise"
           THEN /\ child' = except_check(child)
                /\ stdout' = stdout \o ExcLine
                /\ flushed' = fl
                /\ proc' = proc
           ELSE IF step = "exit"
           THEN /\ proc' = Proc("exited", 0)
                /\ child' = [child EXCEPT !.phase = "died"]
                /\ flushed' = Len(stdout)
                /\ stdout' = stdout
           ELSE /\ proc' = Proc("hung", 0)
                /\ flushed' = fl
                /\ UNCHANGED <<child, stdout>>
    /\ UNCHANGED <<pc, call, exec, ret, parsed, run, clock, runner_calls, first, tmpfs, conc, dedup>>

\* The aggregate markers, then the interpreter exits and flushes its output.
ChildTail ==
    /\ pc = "child" /\ proc.state = "running" /\ child.phase = "tail"
    /\ stdout' = stdout \o
          (IF call.kind = "list"
           THEN StructuredTail(child.NUM_PASSED, child.NUM_TOTAL)
           ELSE FreeFormTail(child.NUM_PASSED, child.NUM_TOTAL))
    /\ flushed' = Len(stdout')
    /\ child' = [child EXCEPT !.phase = "done"]
    /\ proc' = Proc("exited", 0)
    /\ UNCHANGED <<pc, call, exec, ret, parsed, run, clock, runner_calls, first, tmpfs, conc, dedup>>

\* The kernel ends the child with SIGKILL (a resource limit): what is still
\* in the child's buffer is lost.
ChildSignal ==
    /\ pc = "child" /\ proc.state \in {"running", "hung"}
    /\ proc' = Proc("exited", 0 - SIGKILL)
    /\ child' = [child EXCEPT !.phase = "died"]
    /\ UNCHANGED <<pc, call, stdout, flushed, exec, ret, parsed, run, clock, runner_calls, first, tmpfs, conc, dedup>>

Captured == SubSeq(stdout, 1, flushed)

Stderr(returncode) == IF returncode = 1 THEN <<"Traceback">> ELSE EmptyText

\* RunnerReturn with what the child wrote read from the pipe or not at all.
RunnerReturnMayLoseOutput ==
    /\ pc = "child" /\ proc.state = "exited"
    /\ \E t \in 1..2, n \in {0, flushed} :
          exec' = CompletedResult(proc.returncode, SubSeq(stdout, 1, n),
                                  Stderr(proc.returncode), TRUE, t)
    /\ pc' = "returned"
    /\ UNCHANGED <<call, child, proc, stdout, flushed, ret, parsed, run, clock,
                   runner_calls, first, tmpfs, conc, dedup>>

\* The runner returns for a child that ended by itself or by a signal.
RunnerReturn ==
    /\ pc = "child" /\ proc.state = "exited"
    /\ \E t \in 1..2 :
          exec' = CompletedResult(proc.returncode, Captured,
                                  Stderr(proc.returncode), TRUE, t)
    /\ pc' = "returned"
    /\ UNCHANGED <<call, child, proc, stdout, flushed, ret, parsed, run, clock, runner_calls, first, tmpfs, conc, dedup>>

\* The runner's wall-clock timeout: the child is killed where it stands.
RunnerTimeout ==
    /\ pc = "child" /\ proc.state \in {"running", "hung"}
    /\ exec' = TimeoutResult(PipeRead(Captured), NONE, 2)
    /\ proc' = Proc("killed", 0 - SIGKILL)
    /\ child' = [child EXCEPT !.phase = "died"]
    /\ pc' = "returned"
    /\ UNCHANGED <<call, stdout, flushed, ret, parsed, run, clock, runner_calls, first, tmpfs, conc, dedup>>

\* VerifyReturn with passed_all granted to a run with ok = true only.
VerifyReturnGatedByOk ==
    /\ pc = "returned"
    /\ LET m == parse_marker_summary(exec.stdout)
       IN  ret' = [passed_all |-> exec.ok /\ m.passed_all,
                   num_passed |-> m.num_passed,
                   num_total  |-> m.num_total,
                   stdout     |-> exec.stdout,
                   stderr     |-> exec.stderr,
                   exception  |-> exec.exception,
                   time_s     |-> exec.time_s]
    /\ pc' = "done"
    /\ UNCHANGED <<call, child, proc, stdout, flushed, exec, parsed, run, clock,
                   runner_calls, first, tmpfs, conc, dedup>>

\* VerifyReturn with a failed run of the harness started once more.
VerifyReturnRetries ==
    /\ pc = "returned"
    /\ IF ~exec.ok /\ runner_calls < 2
       THEN Spawn(call)
       ELSE /\ LET m == parse_marker_summary(exec.stdout)
               IN  ret' = [passed_all |-> m.passed_all,
                           num_passed |-> m.num_passed,
                           num_total  |-> m.num_total,
                           stdout     |-> exec.stdout,
                           stderr     |-> exec.stderr,
                           exception  |-> exec.exception,
                           time_s     |-> exec.time_s]
            /\ pc' = "done"
            /\ UNCHANGED <<call, child, proc, stdout, flushed, exec, parsed, run,
                           clock, runner_calls, first, tmpfs, conc, dedup>>

\* verify, from the runner's return on (verifiers.py 59-68, 73-82).
VerifyReturn ==
    /\ pc = "returned"
    /\ LET m == parse_marker_summary(exec.stdout)
       IN  ret' = [passed_all |-> m.passed_all,
                   num_passed |-> m.num_passed,
                   num_total  |-> m.num_total,
                   stdout     |-> exec.stdout,
                   stderr     |-> exec.stderr,
                   exception  |-> exec.exception,
                   time_s     |-> exec.time_s]
    /\ pc' = "done"
    /\ UNCHANGED <<call, child, proc, stdout, flushed, exec, parsed, run, clock, runner_calls, first, tmpfs, conc, dedup>>

\* The caller keeps the verdict of the call that returned and sets out to
\* call verify once more with the same code, function name and test suite.
CallerKeepsVerdict ==
    /\ pc = "done"
    /\ ~first.set
    /\ first' = First(ret, proc.state = "exited" /\ proc.returncode >= 0)
    /\ pc' = "again"
    /\ runner_calls' = 0
    /\ child' = NoChild
    /\ proc' = NoProc
    /\ stdout' = EmptyText
    /\ flushed' = 0
    /\ exec' = NoExec
    /\ ret' = NoRet
    /\ UNCHANGED <<call, parsed, run, clock, tmpfs, conc, dedup>>

\* verify called again with the arguments of the earlier call.
VerifyAgain ==
    /\ pc = "again"
    /\ Spawn(call)

Next ==
    \/ VerifyStructured
    \/ VerifyFreeForm
    \/ VerifyTypeError
    \/ ChildImport
    \/ ChildCase
    \/ ChildCheckStep
    \/ ChildTail
    \/ ChildSignal
    \/ RunnerReturn
    \/ RunnerTimeout
    \/ VerifyReturn
    \/ CallerKeepsVerdict
    \/ VerifyAgain

Spec == VerifyInit /\ [][Next]_vars

(***************************************************************************)
(* The two executors: run_python (sandbox.py 59-186) and                   *)
(* run_python_in_docker (sandbox_docker.py 12-76).                         *)
(*                                                                         *)
(* Time advances in ticks of one second.  The child's CPU clock starts     *)
(* when it is forked and the wall-clock deadline when communicate() is     *)
(* entered; both happen within the tick of the call.  Events that fall in  *)
(* the same tick happen in either order.                                   *)
(***************************************************************************)
\* What the program under run does after its prints: it spins, it blocks,
\* it ends with a status, it dies of a signal of its own.
ProgramEnds == {"loop", "sleep", "exit0", "exit1", "signal"}

ProgramPrints == {EmptyText, <<"x", NL>>}

Programs ==
    {Program(p, fl, t) : p \in ProgramPrints, fl \in BOOLEAN, t \in ProgramEnds}

\* cpu_seconds = cpu_seconds or timeout_s   (sandbox.py 93)
EffectiveCpuSeconds(cpu_seconds, timeout_s) ==
    IF cpu_seconds = 0 THEN timeout_s ELSE cpu_seconds

ExecInit ==
    /\ pc = "idle"
    /\ call = NoCall
    /\ child = NoChild
    /\ proc = NoProc
    /\ stdout = EmptyText
    /\ flushed = 0
    /\ exec = NoExec
    /\ ret = NoRet
    /\ parsed = ParseDefaults
    /\ run = NoRun
    /\ clock = NoClock
    /\ runner_calls = 0
    /\ first = NoFirst
    /\ tmpfs = NoDirs
    /\ conc = NoCalls
    /\ dedup = NoDedup

\* The call up to communicate(): the program text is written to a fresh
\* directory, the child is forked and the deadline is set.  `limited` says
\* whether _posix_limit_resources set RLIMIT_CPU in the child: never off
\* POSIX, and not when `import resource` or setrlimit raised (the except
\* clause of sandbox.py 48-50 swallows it).
StartChild(r) ==
    /\ pc = "idle"
    /\ run' = r
    /\ pc' = "communicate"
    /\ proc' = Proc("running", 0)
    /\ stdout' = r.program.prints
    /\ flushed' = IF r.program.flushes THEN Len(r.program.prints) ELSE 0
    /\ clock' = Clock(0, 0, r.timeout_s)
    /\ UNCHANGED <<call, child, exec, ret, parsed, runner_calls, first, tmpfs, conc, dedup>>

RunPython ==
    \E is_posix \in BOOLEAN, timeout_s \in 1..MaxTimeout,
       cpu_seconds \in 0..MaxCpuSeconds, limited \in BOOLEAN, prog \in Programs :
        /\ limited => is_posix
        /\ StartChild(Run("local", is_posix, timeout_s, cpu_seconds, limited, prog,
                          FALSE, TRUE))

RunPythonInDocker ==
    \E timeout_s \in 1..MaxTimeout, prog \in Programs :
        StartChild(Run("docker", TRUE, timeout_s, 0, FALSE, prog, TRUE, TRUE))

\* shutil.which("docker") is None (sandbox_docker.py 23-25): the call returns
\* before its TemporaryDirectory and its subprocess.run.
DockerNotFound ==
    /\ pc = "idle"
    /\ \E timeout_s \in 1..MaxTimeout, prog \in Programs :
          run' = Run("docker", TRUE, timeout_s, 0, FALSE, prog, FALSE, FALSE)
    /\ exec' = ExecResult(FALSE, EmptyText, EmptyText, DOCKER_NOT_FOUND, 0)
    /\ pc' = "returned"
    /\ UNCHANGED <<call, child, proc, stdout, flushed, ret, parsed, clock, runner_calls, first, tmpfs, conc, dedup>>

\* An exception other than TimeoutExpired inside the try block: the
\* directory cannot be made, main.py cannot be written, the fork fails
\* (sandbox.py 169-186, sandbox_docker.py 75-76).  No child runs.
SpawnFails ==
    /\ pc = "idle"
    /\ \E executor \in {"local", "docker"}, e \in HostErrors, made \in BOOLEAN,
          timeout_s \in 1..MaxTimeout, prog \in Programs :
          /\ run' = Run(executor, TRUE, timeout_s, 0, FALSE, prog,
                        executor = "docker", made)
          /\ exec' = ExceptionResult(executor, e, 0)
    /\ pc' = "returned"
    /\ UNCHANGED <<call, child, proc, stdout, flushed, ret, parsed, clock, runner_calls, first, tmpfs, conc, dedup>>

\* One second passes; a running child was on the CPU for it or was not.
Tick ==
    /\ pc = "communicate" /\ proc.state = "running"
    /\ clock.now < clock.deadline
    /\ \E used \in {0, 1} :
          /\ used = 1 => run.program.then # "sleep"
          /\ clock' = [clock EXCEPT !.now = clock.now + 1, !.cpu = clock.cpu + used]
    /\ UNCHANGED <<pc, call, child, proc, stdout, flushed, exec, ret, parsed, run, runner_calls, first, tmpfs, conc, dedup>>

\* The program ends by itself: the interpreter flushes and exits, or the
\* process dies of its own signal with its buffer lost.  A return code is
\* negative on POSIX only.
ChildEnds ==
    /\ pc = "communicate" /\ proc.state = "running"
    /\ run.program.then \in {"exit0", "exit1", "signal"}
    /\ run.program.then = "signal" => run.is_posix
    /\ IF run.program.then = "signal"
       THEN /\ \E n \in OwnSignals : proc' = Proc("exited", 0 - n)
            /\ flushed' = flushed
       ELSE /\ proc' = Proc("exited", IF run.program.then = "exit0" THEN 0 ELSE 1)
            /\ flushed' = Len(stdout)
    /\ UNCHANGED <<pc, call, child, stdout, exec, ret, parsed, run, clock, runner_calls, first, tmpfs, conc, dedup>>

\* RLIMIT_CPU (sandbox.py 33): with the soft and the hard limit equal, the
\* kernel kills the child once it has used cpu_seconds of CPU time.
RlimitCpuKill ==
    /\ pc = "communicate" /\ proc.state = "running"
    /\ run.limited
    /\ clock.cpu >= EffectiveCpuSeconds(run.cpu_seconds, run.timeout_s)
    /\ proc' = Proc("exited", 0 - SIGKILL)
    /\ UNCHANGED <<pc, call, child, stdout, flushed, exec, ret, parsed, run, clock, runner_calls, first, tmpfs, conc, dedup>>

\* subprocess.run returned: sandbox.py 141-158, sandbox_docker.py 58-71.  The
\* docker variant does not ask for POSIX before reading a negative code.
Completed ==
    /\ pc = "communicate" /\ proc.state = "exited"
    /\ exec' = CompletedResult(proc.returncode, Captured, Stderr(proc.returncode),
                               run.is_posix \/ run.executor = "docker", clock.now)
    /\ pc' = "returned"
    /\ UNCHANGED <<call, child, proc, stdout, flushed, ret, parsed, run, clock, runner_calls, first, tmpfs, conc, dedup>>

\* subprocess.run raised TimeoutExpired: the deadline has passed before
\* communicate() saw the end of the child's output and reaped it.  A child
\* that still runs is killed; one that has already ended keeps the status
\* it ended with (the kill of subprocess.run finds nothing to end).
TimedOut ==
    /\ pc = "communicate"
    /\ clock.now >= clock.deadline
    /\ exec' = TimeoutResult(PipeRead(Captured),
                             IF proc.state = "exited"
                             THEN PipeRead(Stderr(proc.returncode)) ELSE NONE,
                             clock.now)
    /\ proc' = IF proc.state = "running" THEN Proc("killed", 0 - SIGKILL) ELSE proc
    /\ pc' = "returned"
    /\ UNCHANGED <<call, child, stdout, flushed, ret, parsed, run, clock, runner_calls, first, tmpfs, conc, dedup>>

ExecNext ==
    \/ RunPython
    \/ RunPythonInDocker
    \/ DockerNotFound
    \/ SpawnFails
    \/ Tick
    \/ ChildEnds
    \/ RlimitCpuKill
    \/ Completed
    \/ TimedOut

SpecExec == ExecInit /\ [][ExecNext]_vars

(***************************************************************************)
(* Texts the marker parser is applied to: up to MaxLines lines, each drawn *)
(* from InputLines, which holds the harness's own marker lines, the        *)
(* variants of them a candidate program can print, and malformed ones.     *)
(***************************************************************************)
CountValues == {<<0, 0>>, <<1, 1>>, <<1, 2>>, <<2, 2>>, <<2, 1>>}

\* The line print("__COUNTS__=", p, "/", t) writes, without its line break.
CountsLine(p, t) == JoinSp(<<COUNTS_PREFIX, str(p), <<"/">>, str(t)>>)

WellFormedCounts ==
    {CountsLine(c[1], c[2]) : c \in CountValues}
    \cup {COUNTS_PREFIX \o <<"1", "/", "2">>,
          <<" ">> \o CountsLine(2, 2) \o <<" ">>,
          CountsLine(0 - 1, 2)}

MalformedCounts ==
    {COUNTS_PREFIX \o <<" ", "5", " ", "/", " ", "x">>,
     COUNTS_PREFIX \o <<" ", "x", " ", "/", " ", "5">>,
     COUNTS_PREFIX \o <<" ", "1">>,
     COUNTS_PREFIX \o <<" ", "1", " ", "/", " ", "2", " ", "/", " ", "3">>,
     COUNTS_PREFIX}

ResultLines ==
    {ResultLine(OK_TEXT), ResultLine(FAIL_TEXT),
     <<" ">> \o ResultLine(OK_TEXT) \o <<" ">>,
     RESULT_PREFIX \o <<" ">> \o OK_TEXT,
     ResultLine(OK_TEXT \o <<"x">>)}

\* Lines that are no marker line for the parser although they hold marker text.
OtherLines ==
    {<<>>,
     <<"x">>,
     <<"__CASE__", " ", "0", " ", "0", " ", "'">> \o ResultLine(OK_TEXT) \o <<"'">>,
     <<"x", " ">> \o CountsLine(2, 2),
     <<"__RESULT__", " ", "=", " ">> \o OK_TEXT,
     <<"__COUNTS__", " ", "=", " ", "1", " ", "/", " ", "1">>}

InputLines == WellFormedCounts \cup MalformedCounts \cup ResultLines \cup OtherLines

ParseInit ==
    /\ pc = "input"
    /\ call = NoCall
    /\ child = NoChild
    /\ proc = NoProc
    /\ stdout = EmptyText
    /\ flushed = 0
    /\ exec = NoExec
    /\ ret = NoRet
    /\ parsed = ParseDefaults
    /\ run = NoRun
    /\ clock = NoClock
    /\ runner_calls = 0
    /\ first = NoFirst
    /\ tmpfs = NoDirs
    /\ conc = NoCalls
    /\ dedup = NoDedup

\* The child writes one more line.
AppendLine ==
    /\ pc = "input"
    /\ Cardinality({i \in 1..Len(stdout) : stdout[i] = NL}) < MaxLines
    /\ \E l \in InputLines : stdout' = stdout \o l \o <<NL>>
    /\ UNCHANGED <<pc, call, child, proc, flushed, exec, ret, parsed, run, clock, runner_calls, first, tmpfs, conc, dedup>>

\* _parse_marker_summary(stdout)
Parse ==
    /\ pc = "input"
    /\ parsed' = parse_marker_summary(stdout)
    /\ pc' = "parsed"
    /\ UNCHANGED <<call, child, proc, stdout, flushed, exec, ret, run, clock, runner_calls, first, tmpfs, conc, dedup>>

\* _parse_marker_summary(None): a runner whose result has no stdout.
ParseNone ==
    /\ pc = "input"
    /\ stdout = EmptyText
    /\ parsed' = parse_marker_summary(NONE)
    /\ pc' = "parsed_none"
    /\ UNCHANGED <<call, child, proc, stdout, flushed, exec, ret, run, clock, runner_calls, first, tmpfs, conc, dedup>>

ParseNext == AppendLine \/ Parse \/ ParseNone

SpecParse == ParseInit /\ [][ParseNext]_vars
(***************************************************************************)
(* Two executor calls side by side (threads or tasks of one caller).  What *)
(* the calls share is the host's temporary directory and nothing else:     *)
(* each call makes its TemporaryDirectory there, writes main.py into it,   *)
(* starts a child on that path, waits for it and removes the directory     *)
(* (sandbox.py 115-139, sandbox_docker.py 27-56).  The child opens main.py *)
(* some time after it was started.                                         *)
(***************************************************************************)
\* The programs the two calls are given.
ConcPrograms ==
    {Program(p, fl, t) : p \in ProgramPrints, fl \in BOOLEAN,
                         t \in {"exit0", "exit1", "loop"}}

\* mkdtemp with one name for every call.
mkdtemp_fixed_name(fs) == {1}

\* tempfile.mkdtemp, under TemporaryDirectory(prefix=...): a name under which
\* mkdir succeeds, that is, one no existing directory has.
mkdtemp(fs) == {d \in DirNames : ~fs[d].exists}

ConcInit ==
    /\ pc = "conc"
    /\ call = NoCall
    /\ child = NoChild
    /\ proc = NoProc
    /\ stdout = EmptyText
    /\ flushed = 0
    /\ exec = NoExec
    /\ ret = NoRet
    /\ parsed = ParseDefaults
    /\ run = NoRun
    /\ clock = NoClock
    /\ runner_calls = 0
    /\ first = NoFirst
    /\ tmpfs = NoDirs
    /\ conc = NoCalls
    /\ dedup = NoDedup

\* with tempfile.TemporaryDirectory(prefix=...) as tmp   (sandbox.py 116)
ConcMkdtemp(i) ==
    /\ conc[i].pc = "idle"
    /\ \E executor \in {"local", "docker"}, code \in ConcPrograms, d \in mkdtemp(tmpfs) :
          /\ tmpfs' = [tmpfs EXCEPT ![d] = Dir(TRUE, FALSE, NoProgram)]
          /\ conc' = [conc EXCEPT ![i] =
                 ConcCall("made", executor, code, d, NoProgram, NoProc, NoExec)]
    /\ UNCHANGED <<pc, call, child, proc, stdout, flushed, exec, ret, parsed, run,
                   clock, runner_calls, first, dedup>>

\* open(main_path, "w") ... fh.write(code)   (sandbox.py 117-119)
ConcWriteMain(i) ==
    /\ conc[i].pc = "made"
    /\ tmpfs' = [tmpfs EXCEPT ![conc[i].tmp] = Dir(TRUE, TRUE, conc[i].code)]
    /\ conc' = [conc EXCEPT ![i].pc = "written"]
    /\ UNCHANGED <<pc, call, child, proc, stdout, flushed, exec, ret, parsed, run,
                   clock, runner_calls, first, dedup>>

\* subprocess.run starts the child on main_path   (sandbox.py 130-139)
ConcSpawn(i) ==
    /\ conc[i].pc = "written"
    /\ conc' = [conc EXCEPT ![i].pc = "communicate",
                            ![i].proc = Proc("starting", 0)]
    /\ UNCHANGED <<pc, call, child, proc, stdout, flushed, exec, ret, parsed, run,
                   clock, runner_calls, first, tmpfs, dedup>>

\* The child's interpreter opens main.py in the directory it was started on;
\* with no such file it exits with status 2.
ConcChildLoads(i) ==
    /\ conc[i].pc = "communicate" /\ conc[i].proc.state = "starting"
    /\ LET dir == tmpfs[conc[i].tmp]
       IN  IF dir.exists /\ dir.written
           THEN conc' = [conc EXCEPT ![i].text = dir.main,
                                     ![i].proc = Proc("running", 0)]
           ELSE conc' = [conc EXCEPT ![i].proc = Proc("exited", 2)]
    /\ UNCHANGED <<pc, call, child, proc, stdout, flushed, exec, ret, parsed, run,
                   clock, runner_calls, first, tmpfs, dedup>>

\* The loaded program ends by itself.
ConcChildEnds(i) ==
    /\ conc[i].pc = "communicate" /\ conc[i].proc.state = "running"
    /\ conc[i].text.then \in {"exit0", "exit1"}
    /\ conc' = [conc EXCEPT ![i].proc =
           Proc("exited", IF conc[i].text.then = "exit0" THEN 0 ELSE 1)]
    /\ UNCHANGED <<pc, call, child, proc, stdout, flushed, exec, ret, parsed, run,
                   clock, runner_calls, first, tmpfs, dedup>>

\* subprocess.run returned; the with block removes the directory and the
\* call returns its ExecResult   (sandbox.py 141-158).
ConcReturn(i) ==
    /\ conc[i].pc = "communicate" /\ conc[i].proc.state = "exited"
    /\ conc' = [conc EXCEPT ![i].pc = "returned",
                            ![i].result =
                                CompletedResult(conc[i].proc.returncode,
                                                conc[i].text.prints,
                                                Stderr(conc[i].proc.returncode),
                                                TRUE, 0)]
    /\ tmpfs' = [tmpfs EXCEPT ![conc[i].tmp] = NoDir]
    /\ UNCHANGED <<pc, call, child, proc, stdout, flushed, exec, ret, parsed, run,
                   clock, runner_calls, first, dedup>>

\* subprocess.run raised TimeoutExpired and killed the child; the with block
\* removes the directory and the except clause returns   (sandbox.py 160-168).
ConcTimeout(i) ==
    /\ conc[i].pc = "communicate" /\ conc[i].proc.state \in {"starting", "running"}
    /\ conc' = [conc EXCEPT ![i].pc = "returned",
                            ![i].proc = Proc("killed", 0 - SIGKILL),
                            ![i].result =
                                TimeoutResult(
                                    PipeRead(IF conc[i].text.flushes
                                             THEN conc[i].text.prints ELSE EmptyText),
                                    NONE, 0)]
    /\ tmpfs' = [tmpfs EXCEPT ![conc[i].tmp] = NoDir]
    /\ UNCHANGED <<pc, call, child, proc, stdout, flushed, exec, ret, parsed, run,
                   clock, runner_calls, first, dedup>>

ConcNext ==
    \E i \in CallIds :
        \/ ConcMkdtemp(i)
        \/ ConcWriteMain(i)
        \/ ConcSpawn(i)
        \/ ConcChildLoads(i)
        \/ ConcChildEnds(i)
        \/ ConcReturn(i)
        \/ ConcTimeout(i)

SpecConc == ConcInit /\ [][ConcNext]_vars

(***************************************************************************)
(* The deduplication of generated test cases.  A generated case has a      *)
(* name, a list of positional arguments, a dict of keyword arguments and   *)
(* an expected value, all read from JSON.  A dict is its items in          *)
(* insertion order.                                                        *)
(***************************************************************************)
\* A number as JSON gives it: an int, or a float with an integral value.
JsonNumber(type, v) == [type |-> type, v |-> v]

\* 1, 1.0 and 2.
JsonNumbers == {JsonNumber("int", 1), JsonNumber("float", 1), JsonNumber("int", 2)}

GeneratedArgs == {<<x>> : x \in JsonNumbers}

\* {}, {"a": 1, "b": 1} and {"b": 1, "a": 1}.
GeneratedKwargs ==
    {<<>>,
     <<<<"a", JsonNumber("int", 1)>>, <<"b", JsonNumber("int", 1)>>>>,
     <<<<"b", JsonNumber("int", 1)>>, <<"a", JsonNumber("int", 1)>>>>}

\* The keys of the dicts, in the order sorted() gives them.
SortedKeys == <<"a", "b">>

\* TestCase(name, args, kwargs, expected)
GeneratedCase(name, args, kwargs, expected) ==
    [name |-> name, args |-> args, kwargs |-> kwargs, expected |-> expected]

GeneratedCases ==
    {GeneratedCase(ne[1], a, k, ne[2]) :
        ne \in {<<"case_0", 1>>, <<"case_1", 2>>},
        a \in GeneratedArgs, k \in GeneratedKwargs}

RECURSIVE JoinComma(_)
JoinComma(parts) ==
    IF parts = <<>> THEN <<>>
    ELSE IF Len(parts) = 1 THEN parts[1]
    ELSE parts[1] \o <<",", " ">> \o JoinComma(Tail(parts))

\* json.dumps of a number: 1 for the int, 1.0 for the float.
dumps_number(x) ==
    IF x.type = "float" THEN str(x.v) \o <<".", "0">> ELSE str(x.v)

\* json.dumps of a list of numbers.
dumps_list(xs) ==
    <<"[">> \o JoinComma([i \in 1..Len(xs) |-> dumps_number(xs[i])]) \o <<"]">>

dumps_item(kv) == <<"\"", kv[1], "\"", ":", " ">> \o dumps_number(kv[2])

\* The items of a dict ordered by key.
RECURSIVE sorted_items(_, _)
sorted_items(d, keys) ==
    IF keys = <<>> THEN <<>>
    ELSE SelectSeq(d, LAMBDA kv : kv[1] = Head(keys)) \o sorted_items(d, Tail(keys))

\* json.dumps of a dict with its items in insertion order.
dumps_dict_unsorted(d) ==
    <<"{">> \o JoinComma([i \in 1..Len(d) |-> dumps_item(d[i])]) \o <<"}">>

\* json.dumps(d, sort_keys=True)
dumps_dict(d) ==
    LET items == sorted_items(d, SortedKeys)
    IN  <<"{">> \o JoinComma([i \in 1..Len(items) |-> dumps_item(items[i])]) \o <<"}">>

\* key = (json.dumps(tc.args, sort_keys=True), json.dumps(tc.kwargs, sort_keys=True))
DedupKey(tc) == <<dumps_list(tc.args), dumps_dict(tc.kwargs)>>

\* The loop of _deduplicate_test_cases over the cases left, with the keys
\* seen and the cases kept so far.
RECURSIVE DedupLoop(_, _, _)
DedupLoop(cases, seen, uniq) ==
    IF cases = <<>> THEN uniq
    ELSE LET tc  == Head(cases)
             key == DedupKey(tc)
         IN  IF key \in seen
             THEN DedupLoop(Tail(cases), seen, uniq)
             ELSE DedupLoop(Tail(cases), seen \cup {key}, Append(uniq, tc))

deduplicate_test_cases(cases) == DedupLoop(cases, {}, <<>>)

DedupInit ==
    /\ pc = "generated"
    /\ call = NoCall
    /\ child = NoChild
    /\ proc = NoProc
    /\ stdout = EmptyText
    /\ flushed = 0
    /\ exec = NoExec
    /\ ret = NoRet
    /\ parsed = ParseDefaults
    /\ run = NoRun
    /\ clock = NoClock
    /\ runner_calls = 0
    /\ first = NoFirst
    /\ tmpfs = NoDirs
    /\ conc = NoCalls
    /\ dedup = NoDedup

\* One more generated case joins the list.
GenerateCase ==
    /\ pc = "generated"
    /\ Len(dedup.cases) < MaxGenerated
    /\ \E tc \in GeneratedCases :
          dedup' = [dedup EXCEPT !.cases = Append(dedup.cases, tc)]
    /\ UNCHANGED <<pc, call, child, proc, stdout, flushed, exec, ret, parsed, run, clock, runner_calls, first, tmpfs, conc>>

\* _deduplicate_test_cases(cases)
Deduplicate ==
    /\ pc = "generated"
    /\ dedup' = [dedup EXCEPT !.uniq = deduplicate_test_cases(dedup.cases)]
    /\ pc' = "deduplicated"
    /\ UNCHANGED <<call, child, proc, stdout, flushed, exec, ret, parsed, run, clock, runner_calls, first, tmpfs, conc>>

\* _deduplicate_test_cases called on the list it returned.
DeduplicateAgain ==
    /\ pc = "deduplicated"
    /\ dedup' = [dedup EXCEPT !.twice = deduplicate_test_cases(dedup.uniq)]
    /\ pc' = "deduplicated_twice"
    /\ UNCHANGED <<call, child, proc, stdout, flushed, exec, ret, parsed, run, clock, runner_calls, first, tmpfs, conc>>

DedupNext == GenerateCase \/ Deduplicate \/ DeduplicateAgain

SpecDedup == DedupInit /\ [][DedupNext]_vars

(***************************************************************************)
(* The claims.                                                             *)
(***************************************************************************)
VerifyDone == pc = "done"

\* The structured harness ran to its end and all it wrote was captured.
StructuredCompleted ==
    /\ call.kind = "list"
    /\ child.phase = "done"

NumCases == Len(call.cases)

OutcomeOf(i) == call.cand.f[call.cases[i].args]

\* The cases whose call returned a value equal to expected.
PassingCases ==
    {i \in 1..NumCases :
        OutcomeOf(i).kind = "return" /\ OutcomeOf(i).value = call.cases[i].expected}

RaisingCases == {i \in 1..NumCases : OutcomeOf(i) = Raise}

\* A __COUNTS__ line both of whose sides int() accepts.
IsWellFormedCounts(rawline) ==
    LET line  == strip(rawline)
        parts == split(strip(AfterFirst(line, "=")), "/")
    IN  /\ startswith(line, COUNTS_PREFIX)
        /\ Len(parts) = 2
        /\ IsIntText(parts[1])
        /\ IsIntText(parts[2])

IsMalformedCounts(rawline) ==
    startswith(strip(rawline), COUNTS_PREFIX) /\ ~IsWellFormedCounts(rawline)

IsResultMarker(rawline) == startswith(strip(rawline), RESULT_PREFIX)

\* The last line of `lines` that P holds of, 0 when there is none.
LastLine(lines, P(_)) ==
    IF \E i \in 1..Len(lines) : P(lines[i])
    THEN CHOOSE i \in 1..Len(lines) :
            P(lines[i]) /\ \A j \in (i + 1)..Len(lines) : ~P(lines[j])
    ELSE 0

\* The total the last well-formed __COUNTS__ line of a text states, else 0.
LastCountsTotal(text) ==
    LET lines == splitlines(text)
        i     == LastLine(lines, IsWellFormedCounts)
    IN  IF i = 0 THEN 0
        ELSE int(split(strip(AfterFirst(strip(lines[i]), "=")), "/")[2])

\* `lines` without its malformed __COUNTS__ lines.
RECURSIVE DropMalformedCounts(_)
DropMalformedCounts(lines) ==
    IF lines = <<>> THEN <<>>
    ELSE (IF IsMalformedCounts(Head(lines)) THEN <<>> ELSE <<Head(lines)>>)
         \o DropMalformedCounts(Tail(lines))

\* C1 (as claimed): every result of verify has passed_all true if and only
\* if num_passed = num_total and num_total > 0.
C1_PassedAllIffAllPassed ==
    VerifyDone =>
        (ret.passed_all <=> (ret.num_passed = ret.num_total /\ ret.num_total > 0))

\* C2 (as claimed): for a structured list of N cases the returned num_total
\* is N, whatever the outcome of the executor.
C2_NumTotalAlwaysN ==
    (VerifyDone /\ call.kind = "list") => ret.num_total = NumCases

\* C2 (amended): for a structured list of N cases num_total is N when the
\* harness ran to its end; when the child ended or was killed before its
\* aggregate markers, num_total is the total of the last well-formed
\* __COUNTS__ line of the captured output, 0 when there is none.
C2_NumTotalNWhenCompleted ==
    (VerifyDone /\ call.kind = "list") =>
        IF child.phase = "done"
        THEN ret.num_total = NumCases
        ELSE /\ ret.num_total = LastCountsTotal(ret.stdout)
             /\ ret.num_total \in {0, 1}

C2_Witness ==
    /\ VerifyDone /\ StructuredCompleted
    /\ NumCases = 2
    /\ ret.num_total = 2
    /\ contains(call.cand.prints, COUNTS_PREFIX)

\* C3: when no call raises and the structured harness runs to its end,
\* num_total is the number of cases and num_passed the number of cases whose
\* returned value equals expected.
C3_CountsOfCompletedRun ==
    (VerifyDone /\ StructuredCompleted /\ RaisingCases = {}) =>
        /\ ret.num_total = NumCases
        /\ ret.num_passed = Cardinality(PassingCases)

\* add(1, 2) expecting 3 and add(2, 2) expecting 5: 1 of 2 passed.
C3_Witness ==
    /\ VerifyDone /\ StructuredCompleted
    /\ call.cases = <<TestCase(<<1, 2>>, 3), TestCase(<<2, 2>>, 5)>>
    /\ call.cand.f[<<1, 2>>] = Return(3)
    /\ call.cand.f[<<2, 2>>] = Return(4)
    /\ ret.num_total = 2 /\ ret.num_passed = 1 /\ ~ret.passed_all

\* C4: a case whose call raises is counted as failed, its marker carries the
\* exception tag, and the run goes on: the child never ends by itself at a
\* raising case, every case has its marker, the aggregate markers are printed
\* with the raising cases not counted, and verify reports them as failed.
C4_RaisingCaseFailsAndRunGoesOn ==
    /\ (call.kind = "list" /\ child.phase = "died" /\ child.idx >= 1
            /\ proc.state = "exited" /\ proc.returncode # 0 - SIGKILL)
        => OutcomeOf(child.idx) = Exit
    /\ StructuredCompleted =>
        /\ \A i \in RaisingCases :
              contains(stdout, StructuredCaseLine(i - 1, FALSE, EXC_TAG,
                                                  call.cases[i].expected))
        /\ \A i \in 1..NumCases :
              contains(stdout, <<"__CASE__", " ">> \o str(i - 1) \o <<" ">>)
        /\ contains(stdout, print(<<COUNTS_PREFIX, str(Cardinality(PassingCases)),
                                    <<"/">>, str(NumCases)>>) \o TimeLine)
    /\ (VerifyDone /\ StructuredCompleted /\ RaisingCases # {}) =>
        /\ ret.num_passed = Cardinality(PassingCases)
        /\ ret.num_passed < ret.num_total
        /\ ~ret.passed_all

\* The first of two cases raises and the second is still evaluated and passes.
C4_Witness ==
    /\ VerifyDone /\ StructuredCompleted
    /\ NumCases = 2
    /\ RaisingCases = {1}
    /\ PassingCases = {2}
    /\ ret.num_passed = 1 /\ ret.num_total = 2 /\ ~ret.passed_all

\* C5: when the text holds an explicit __RESULT__=OK or __RESULT__=FAIL
\* line, passed_all is what that line (the last marker line of its family)
\* says, whatever the __COUNTS__ lines say.
C5_ExplicitResultWins ==
    pc = "parsed" =>
        LET lines == splitlines(stdout)
            i     == LastLine(lines, IsResultMarker)
        IN  i # 0 =>
              /\ strip(lines[i]) = ResultLine(OK_TEXT) => parsed.passed_all
              /\ strip(lines[i]) = ResultLine(FAIL_TEXT) => ~parsed.passed_all

\* __RESULT__=OK with counts that say otherwise.
C5_Witness ==
    /\ pc = "parsed"
    /\ LastLine(splitlines(stdout), IsResultMarker) # 0
    /\ parsed.passed_all
    /\ parsed.num_total > 0
    /\ parsed.num_passed # parsed.num_total

\* C6 (as claimed): when no stripped line starts with "__RESULT__=" and
\* num_total > 0, passed_all is (num_passed = num_total), also when another
\* line holds "__RESULT__=" in its middle.
C6_InferredWithoutResultLine ==
    (pc = "parsed"
        /\ LastLine(splitlines(stdout), IsResultMarker) = 0
        /\ parsed.num_total > 0)
    => (parsed.passed_all <=> (parsed.num_passed = parsed.num_total))

\* C7 (as claimed): a malformed __COUNTS__ line changes neither num_passed
\* nor num_total, nor what the other lines do: the text parses as it does
\* with its malformed __COUNTS__ lines taken out.
C7_MalformedCountsIgnored ==
    pc = "parsed" =>
        LET kept == ParseLines(ParseDefaults, DropMalformedCounts(splitlines(stdout)))
        IN  /\ parsed.num_passed = kept.num_passed
            /\ parsed.num_total = kept.num_total

\* C8 (as claimed): every triple the parser returns has
\* 0 <= num_passed <= num_total.
C8_PassedWithinTotal ==
    pc = "parsed" =>
        /\ 0 <= parsed.num_passed
        /\ parsed.num_passed <= parsed.num_total

\* C9: when the wall-clock timeout expires on the child, both executors
\* return ok = false and exception = "timeout", with stdout and stderr what
\* had been captured by then, the empty text when nothing had.
C9_TimeoutKeepsPartialOutput ==
    (pc = "returned" /\ proc.state = "killed") =>
        /\ ~exec.ok
        /\ exec.exception = TIMEOUT
        /\ exec.stdout = Captured
        /\ exec.stderr = EmptyText

C9_Witness ==
    /\ pc = "returned" /\ proc.state = "killed"
    /\ run.executor = "docker"
    /\ exec.exception = TIMEOUT
    /\ exec.stdout = <<"x", NL>>

\* C10 (as claimed): with the default limits the local executor reports a
\* program that loops forever as ok = false, exception = "timeout", never
\* as anything else.
C10_LoopAlwaysTimeout ==
    (pc = "returned"
        /\ run.executor = "local"
        /\ run.program.then = "loop"
        /\ run.timeout_s = DefaultTimeout
        /\ run.cpu_seconds = 0)
    => (~exec.ok /\ exec.exception = TIMEOUT)

\* C11 (as claimed): when the container engine binary is not found,
\* run_python_in_docker returns ok = false and exception =
\* "runtime_not_found", having made no scratch directory and no child.
C11_RuntimeNotFound ==
    (pc = "returned" /\ run.executor = "docker" /\ ~run.docker_bin) =>
        /\ ~exec.ok
        /\ exec.exception = <<"runtime_not_found">>
        /\ ~run.tmp
        /\ proc = NoProc

\* The child ended by itself with status 0.
CleanExit == proc.state = "exited" /\ proc.returncode = 0

\* C12: a call of run_python or run_python_in_docker ends by returning an
\* ExecResult, never otherwise; for a non-zero exit, a death by signal, a
\* timeout, a kill at a resource limit, a missing docker binary (and a host
\* error inside the try block) the result has ok = false and an exception
\* text that is neither None nor empty; ok is true for a clean exit only.
C12_FailuresAreResults ==
    /\ pc # "returned" => ENABLED ExecNext
    /\ pc = "returned" =>
          /\ exec.ok => (CleanExit /\ exec.exception = NONE)
          /\ ~exec.ok => (exec.exception # NONE /\ exec.exception # EmptyText)

\* The kernel's kill at RLIMIT_CPU is reported as signal:9.
C12_Witness ==
    /\ pc = "returned"
    /\ run.executor = "local" /\ run.limited
    /\ proc = Proc("exited", 0 - SIGKILL)
    /\ ~exec.ok
    /\ exec.exception = <<"signal", ":", "9">>

\* C13: a call of verify invokes the runner at most once: exactly once when
\* test_suite is a str or a list, from the moment the harness is built on,
\* and not at all when verify raises TypeError for another type; the count
\* is still one when verify has returned, whatever the runner returned.
C13_RunnerCalledOnce ==
    /\ runner_calls <= 1
    /\ pc \in {"child", "returned", "done"} =>
          /\ runner_calls = 1
          /\ call.kind \in {"str", "list"}
    /\ pc = "raised" => runner_calls = 0

\* A run that timed out with no marker in its output, and no second run.
C13_Witness ==
    /\ VerifyDone
    /\ runner_calls = 1
    /\ ~exec.ok
    /\ ret.exception = TIMEOUT
    /\ ret.stdout = EmptyText
    /\ ret.num_total = 0

\* What the harness has written: stdout after the candidate's own prints.
HarnessOut == Drop(stdout, Len(call.cand.prints) + 1)

\* The number of cases, or check steps, the child has behind it.
ItemsDone == IF child.idx >= 1 THEN child.idx - 1 ELSE 0

\* The marker line of case i of the input list, without its line break.
CaseMarker(i) ==
    LET tc == call.cases[i]
        r  == CaseResult(OutcomeOf(i), tc.expected)
        l  == StructuredCaseLine(i - 1, r.ok, r.res, tc.expected)
    IN  SubSeq(l, 1, Len(l) - 1)

\* C14: in the structured harness the cases are evaluated in the order of
\* the input list with one __CASE__ line each: when the child stands at case
\* i+1 (or has ended there) the harness has written exactly the markers of
\* cases 1..i, in that order, marker j being that of the j-th case of the
\* list and carrying the index j-1; the three aggregate lines come after the
\* marker of the last case and only there.
C14_CaseMarkersInOrder ==
    (call.kind = "list" /\ pc \in {"child", "returned", "done"}) =>
        LET lines == splitlines(HarnessOut)
            k     == ItemsDone
        IN  /\ k <= NumCases
            /\ Len(lines) = IF child.phase = "done" THEN k + 3 ELSE k
            /\ \A j \in 1..k :
                  /\ lines[j] = CaseMarker(j)
                  /\ startswith(lines[j], <<"__CASE__", " ">> \o str(j - 1) \o <<" ">>)
            /\ child.phase \in {"tail", "done"} => k = NumCases
            /\ child.phase = "done" =>
                  /\ startswith(lines[k + 1], RESULT_PREFIX)
                  /\ startswith(lines[k + 2], COUNTS_PREFIX)
                  /\ startswith(lines[k + 3], <<"__TIME__", "=">>)

\* Two different cases, both evaluated, the run complete.
C14_Witness ==
    /\ VerifyDone /\ StructuredCompleted
    /\ NumCases = 2
    /\ call.cases[1] # call.cases[2]
    /\ Len(splitlines(HarnessOut)) = 5
    /\ splitlines(HarnessOut)[1] = CaseMarker(1)
    /\ splitlines(HarnessOut)[2] = CaseMarker(2)
    /\ CaseMarker(1) # CaseMarker(2)

\* The steps of the check routine are k calls of assert_ and then a raise.
CheckRaises ==
    /\ call.kind = "str"
    /\ call.steps # <<>>
    /\ call.steps[Len(call.steps)] = "raise"

\* The intercepted assertions among the first n steps, and those that passed.
Asserted(n) == {i \in 1..n : call.steps[i] \in {"assert_true", "assert_false"}}

AssertedTrue(n) == {i \in 1..n : call.steps[i] = "assert_true"}

\* C15: in the free-form harness, when check raises an uncaught exception
\* after k intercepted assertions of which p passed, the child does not end
\* there: it prints the __EXC__ line and then the three aggregate lines, the
\* counts line reading p / k, and verify returns num_passed = p and
\* num_total = k.
C15_CountsKeptAfterRaise ==
    LET n == Len(call.steps)
        k == Cardinality(Asserted(n))
        p == Cardinality(AssertedTrue(n))
    IN  /\ (call.kind = "str" /\ child.phase = "died" /\ child.idx >= 1
                /\ proc.state = "exited" /\ proc.returncode # 0 - SIGKILL)
            => call.steps[child.idx] = "exit"
        /\ (CheckRaises /\ child.phase = "done") =>
              LET lines == splitlines(HarnessOut)
              IN  /\ Len(lines) = k + 4
                  /\ lines[k + 1] \o <<NL>> = ExcLine
                  /\ startswith(lines[k + 2], RESULT_PREFIX)
                  /\ lines[k + 3] = CountsLine(p, k)
                  /\ startswith(lines[k + 4], <<"__TIME__", "=">>)
        /\ (CheckRaises /\ child.phase = "done" /\ VerifyDone) =>
              /\ ret.num_passed = p
              /\ ret.num_total = k

\* One assertion that fails, then the raise: 0 / 1.
C15_Witness ==
    /\ VerifyDone
    /\ call.kind = "str"
    /\ call.steps = <<"assert_false", "raise">>
    /\ child.phase = "done"
    /\ contains(stdout, ExcLine \o FreeFormTail(0, 1))
    /\ ret.num_passed = 0 /\ ret.num_total = 1

\* C16 (as claimed): in free-form mode, whenever the harness has printed an
\* __EXC__ line, verify returns num_passed < num_total and passed_all =
\* false, also when the error came after assertions that all passed.
C16_ExcDegradesVerdict ==
    (VerifyDone /\ call.kind = "str" /\ contains(ret.stdout, ExcLine)) =>
        /\ ret.num_passed < ret.num_total
        /\ ~ret.passed_all

\* A line with its blanks and tabs taken out.
RECURSIVE Squeeze(_)
Squeeze(line) ==
    IF line = <<>> THEN <<>>
    ELSE (IF Head(line) \in Whitespace THEN <<>> ELSE <<Head(line)>>)
         \o Squeeze(Tail(line))

\* A marker line in the form without whitespace, "__COUNTS__=p/t" or
\* "__RESULT__=v"; any other line as it is.  In the lines of InputLines that
\* begin with a marker word, whitespace stands only at the ends and around
\* "=" and "/".
Canonical(line) ==
    IF startswith(Squeeze(line), RESULT_PREFIX) \/ startswith(Squeeze(line), COUNTS_PREFIX)
    THEN Squeeze(line)
    ELSE line

RECURSIVE CanonicalText(_)
CanonicalText(lines) ==
    IF lines = <<>> THEN <<>>
    ELSE Canonical(Head(lines)) \o <<NL>> \o CanonicalText(Tail(lines))

\* C17 (as claimed): whitespace around "=" and "/" is insignificant to the
\* parser: a text parses to the same (passed_all, num_passed, num_total) as
\* the text whose marker lines are written without that whitespace.
C17_WhitespaceInsignificant ==
    pc = "parsed" =>
        parsed = parse_marker_summary(CanonicalText(splitlines(stdout)))

\* A line the parser reads as a marker: stripped, it begins with
\* "__RESULT__=" or "__COUNTS__=".
IsMarkerLine(rawline) ==
    IsResultMarker(rawline) \/ startswith(strip(rawline), COUNTS_PREFIX)

\* C18: the parser returns passed_all = false, num_passed = 0, num_total = 0
\* for None, for the empty text, and for every text none of whose lines is
\* a marker line.
C18_DefaultsWithoutMarkers ==
    /\ pc = "parsed_none" => parsed = ParseDefaults
    /\ (pc = "parsed" /\ LastLine(splitlines(stdout), IsMarkerLine) = 0)
          => parsed = ParseDefaults

\* Lines that hold marker text, none of them beginning with it.
C18_Witness ==
    /\ pc = "parsed"
    /\ Len(splitlines(stdout)) = 2
    /\ LastLine(splitlines(stdout), IsMarkerLine) = 0
    /\ contains(stdout, COUNTS_PREFIX)
    /\ contains(stdout, <<"__RESULT__">>)
    /\ parsed = ParseDefaults

\* C19: the verdict fields of a verify result are a function of
\* ExecResult.stdout alone, namely the parser's value for it: whatever ok,
\* stderr, exception and time_s are, two results with the same stdout have
\* the same passed_all, num_passed and num_total; stdout, stderr, exception
\* and time_s are those of the ExecResult.
C19_VerdictFromStdoutAlone ==
    VerifyDone =>
        /\ [passed_all |-> ret.passed_all, num_passed |-> ret.num_passed,
            num_total |-> ret.num_total] = parse_marker_summary(ret.stdout)
        /\ ret.stdout = exec.stdout
        /\ ret.stderr = exec.stderr
        /\ ret.exception = exec.exception
        /\ ret.time_s = exec.time_s

\* A run that timed out after the candidate had printed __RESULT__=OK: ok is
\* false, the exception is "timeout", and passed_all is what stdout says.
C19_Witness ==
    /\ VerifyDone
    /\ ~exec.ok
    /\ ret.exception = TIMEOUT
    /\ ret.stdout = ResultLine(OK_TEXT) \o <<NL>>
    /\ ret.passed_all

\* A second call of verify with the arguments of an earlier one has returned.
SecondVerifyDone == VerifyDone /\ first.set /\ call.kind = "list"

\* The child of the call at hand ended by itself: it exited or died of an
\* uncaught exception, and was not killed.
EndedByItself == proc.state = "exited" /\ proc.returncode >= 0

SameVerdict ==
    /\ ret.passed_all = first.passed_all
    /\ ret.num_passed = first.num_passed
    /\ ret.num_total = first.num_total

\* C20 (as claimed): two calls of verify with the same candidate code,
\* function name and structured test list return the same passed_all,
\* num_passed and num_total.
C20_RerunSameVerdict == SecondVerifyDone => SameVerdict

\* C20 (amended): two calls of verify with the same (deterministic)
\* candidate, function name and structured test list return the same
\* passed_all, num_passed and num_total, whatever their time_s, when in both
\* runs the child ended by itself; a run cut short by the timeout or by a kill may report other
\* counts than a run that was not.
C20_RerunSameVerdictWhenBothEnd ==
    (SecondVerifyDone /\ first.ended /\ EndedByItself) => SameVerdict

\* Two completed runs of two cases, 1 of 2 passed both times.
C20_Witness ==
    /\ SecondVerifyDone /\ first.ended /\ EndedByItself
    /\ StructuredCompleted
    /\ SameVerdict
    /\ ret.num_passed = 1 /\ ret.num_total = 2

\* The ExecResults a call given `code` returns when it is the only call.
AloneResults(code) ==
    (IF code.then \in {"exit0", "exit1"}
     THEN LET rc == IF code.then = "exit0" THEN 0 ELSE 1
          IN  {CompletedResult(rc, code.prints, Stderr(rc), TRUE, 0)}
     ELSE {})
    \cup {TimeoutResult(NONE, NONE, 0)}
    \cup (IF code.flushes THEN {TimeoutResult(PipeRead(code.prints), NONE, 0)} ELSE {})

\* C21: two calls that run side by side do not interfere: the calls that
\* hold a directory hold different ones, a call's directory holds no other
\* text than that call's program, every child finds its main.py and loads
\* the program text of its own call, and each call returns a result it can
\* return when it runs alone.
C21_CallsDoNotInterfere ==
    /\ \A i, j \in CallIds :
          (i # j /\ conc[i].pc \in {"made", "written", "communicate"}
                 /\ conc[j].pc \in {"made", "written", "communicate"})
          => conc[i].tmp # conc[j].tmp
    /\ \A i \in CallIds :
          /\ conc[i].pc \in {"written", "communicate"} =>
                tmpfs[conc[i].tmp] = Dir(TRUE, TRUE, conc[i].code)
          /\ conc[i].proc.state = "running" => conc[i].text = conc[i].code
          /\ conc[i].proc.state = "exited" => conc[i].proc.returncode # 2
          /\ conc[i].pc = "returned" => conc[i].result \in AloneResults(conc[i].code)

\* Two calls with different programs, each returned with the output and the
\* exit status of its own program.
C21_Witness ==
    /\ conc[1].pc = "returned" /\ conc[2].pc = "returned"
    /\ conc[1].code # conc[2].code
    /\ conc[1].code.prints # conc[2].code.prints
    /\ conc[1].result.ok /\ ~conc[2].result.ok
    /\ conc[1].result.stdout = conc[1].code.prints
    /\ conc[2].result.stdout = conc[2].code.prints
    /\ conc[2].result.exception = <<"returncode", ":", "1">>

\* The __CASE__ lines among `lines`, and those of them that end in PASS.
CaseLines(lines) ==
    {j \in 1..Len(lines) : startswith(lines[j], <<"__CASE__", " ">>)}

PassLines(lines) ==
    {j \in CaseLines(lines) :
        Len(lines[j]) >= 4
        /\ SubSeq(lines[j], Len(lines[j]) - 3, Len(lines[j])) = <<"P", "A", "S", "S">>}

\* C22: in the free-form harness every call of the intercepting assertion
\* primitive adds 1 to the total, adds 1 to the passed counter exactly when
\* its condition is true, and prints one __CASE__ line with the new total as
\* its id: at every point __CASE_ID__ = __NUM_TOTAL__ = the number of calls
\* made, __NUM_PASSED__ = the number of them with a true condition (so
\* __NUM_PASSED__ <= __NUM_TOTAL__), the harness has written the lines of
\* ids 1..k in order, and the final __COUNTS__ line reads (number of PASS
\* lines) / (number of __CASE__ lines).
C22_AssertionsCounted ==
    (call.kind = "str" /\ pc \in {"child", "returned", "done"}) =>
        LET k     == Cardinality(Asserted(ItemsDone))
            lines == splitlines(HarnessOut)
        IN  /\ child.CASE_ID = child.NUM_TOTAL
            /\ child.NUM_TOTAL = k
            /\ child.NUM_PASSED = Cardinality(AssertedTrue(ItemsDone))
            /\ child.NUM_PASSED <= child.NUM_TOTAL
            /\ CaseLines(lines) = 1..k
            /\ \A j \in 1..k :
                  lines[j] \o <<NL>> =
                      FreeFormCaseLine(j, call.steps[j] = "assert_true")
            /\ child.phase = "done" =>
                  \E j \in 1..Len(lines) :
                      lines[j] = CountsLine(Cardinality(PassLines(lines)),
                                            Cardinality(CaseLines(lines)))

\* One assertion that passes and one that fails: ids 1 and 2, counts 1 / 2.
C22_Witness ==
    /\ VerifyDone
    /\ call.kind = "str"
    /\ call.steps = <<"assert_true", "assert_false">>
    /\ child.phase = "done"
    /\ child.CASE_ID = 2 /\ child.NUM_TOTAL = 2 /\ child.NUM_PASSED = 1
    /\ contains(HarnessOut, FreeFormCaseLine(1, TRUE) \o FreeFormCaseLine(2, FALSE))
    /\ contains(HarnessOut, CountsLine(1, 2))

\* The classifications of a call that did not get an exit status from its
\* child: timeout, missing docker binary, host-side exception.
NonExitReasons ==
    {TIMEOUT, DOCKER_NOT_FOUND, <<"memory_error">>}
        \cup {<<"exception", ":", e>> : e \in HostErrors}

\* C23 (as claimed): every ExecResult either executor returns has ok true
\* exactly when the child exited with status 0 and exception None exactly
\* when ok is true; with ok false the exception is signal:<n> for a child
\* that died of signal n, returncode:<n> for a child that exited with the
\* non-zero status n, and otherwise one of timeout, missing runtime and
\* host-side exception.
C23_ResultMatchesExit ==
    pc = "returned" =>
        /\ exec.ok <=> CleanExit
        /\ (exec.exception = NONE) <=> exec.ok
        /\ ~exec.ok =>
              IF proc.state = "exited" /\ proc.returncode < 0
              THEN exec.exception = <<"signal", ":">> \o str(0 - proc.returncode)
              ELSE IF proc.state = "exited" /\ proc.returncode > 0
              THEN exec.exception = <<"returncode", ":">> \o str(proc.returncode)
              ELSE exec.exception \in NonExitReasons

\* The part of C23 that holds: ok is true only for a child that exited
\* with status 0, exception is None exactly when ok is true, and a result
\* with ok false carries signal:<n> or returncode:<n> of the child's exit
\* or one of the other classifications.
C23_OkOnlyForCleanExit ==
    pc = "returned" =>
        /\ exec.ok => CleanExit
        /\ (exec.exception = NONE) <=> exec.ok
        /\ ~exec.ok =>
              \/ exec.exception \in NonExitReasons
              \/ /\ proc.state = "exited" /\ proc.returncode < 0
                 /\ exec.exception = <<"signal", ":">> \o str(0 - proc.returncode)
              \/ /\ proc.state = "exited" /\ proc.returncode > 0
                 /\ exec.exception = <<"returncode", ":">> \o str(proc.returncode)

\* The child has exited with status 0 and the call returns a timeout.
C23_CleanExitReportedAsTimeout ==
    /\ pc = "returned"
    /\ run.executor = "local"
    /\ CleanExit
    /\ ~exec.ok
    /\ exec.exception = TIMEOUT

\* The two sides of a well-formed __COUNTS__ line as integers.
CountsOf(rawline) ==
    LET parts == split(strip(AfterFirst(strip(rawline), "=")), "/")
    IN  <<int(parts[1]), int(parts[2])>>

\* The lines of `lines` that P holds of.
LinesWith(lines, P(_)) == {i \in 1..Len(lines) : P(lines[i])}

\* C24 (as claimed): the parser is last-marker-wins per family: of several
\* __RESULT__ lines the last one gives passed_all, and of several
\* well-formed __COUNTS__ lines the last one gives num_passed and
\* num_total, whatever the other lines of the text are.
C24_LastMarkerWins ==
    pc = "parsed" =>
        LET lines == splitlines(stdout)
            r     == LastLine(lines, IsResultMarker)
            c     == LastLine(lines, IsWellFormedCounts)
        IN  /\ Cardinality(LinesWith(lines, IsResultMarker)) >= 2 =>
                  (parsed.passed_all <=>
                      strip(AfterFirst(strip(lines[r]), "=")) = OK_TEXT)
            /\ Cardinality(LinesWith(lines, IsWellFormedCounts)) >= 2 =>
                  /\ parsed.num_passed = CountsOf(lines[c])[1]
                  /\ parsed.num_total = CountsOf(lines[c])[2]

\* The part of C24 that holds: the last __RESULT__ line gives passed_all,
\* the last well-formed __COUNTS__ line gives num_total, and it gives
\* num_passed when no malformed __COUNTS__ line with a number on its left
\* side follows it.
C24_LastMarkerWinsButForMalformed ==
    pc = "parsed" =>
        LET lines == splitlines(stdout)
            r     == LastLine(lines, IsResultMarker)
            c     == LastLine(lines, IsWellFormedCounts)
        IN  /\ r # 0 =>
                  (parsed.passed_all <=>
                      strip(AfterFirst(strip(lines[r]), "=")) = OK_TEXT)
            /\ c # 0 =>
                  /\ parsed.num_total = CountsOf(lines[c])[2]
                  /\ (\A j \in (c + 1)..Len(lines) : ~IsMalformedCounts(lines[j]))
                        => parsed.num_passed = CountsOf(lines[c])[1]

\* Two well-formed __COUNTS__ lines, then "__COUNTS__= 5 / x": the parser
\* returns 5 passed of the last well-formed line's total.
C24_MalformedAfterLast ==
    /\ pc = "parsed"
    /\ splitlines(stdout) = <<CountsLine(1, 2), CountsLine(2, 2),
                              COUNTS_PREFIX \o <<" ", "5", " ", "/", " ", "x">>>>
    /\ parsed = [passed_all |-> FALSE, num_passed |-> 5, num_total |-> 2]

\* Python's == on two numbers: by value, an int and a float alike.
PyEqNumber(x, y) == x.v = y.v

\* Python's == on two lists of numbers.
PyEqList(xs, ys) ==
    Len(xs) = Len(ys) /\ \A i \in 1..Len(xs) : PyEqNumber(xs[i], ys[i])

\* Python's == on two dicts: the same keys with equal values, in any order.
PyEqDict(d, e) ==
    /\ Len(d) = Len(e)
    /\ \A i \in 1..Len(d) :
          \E j \in 1..Len(e) : d[i][1] = e[j][1] /\ PyEqNumber(d[i][2], e[j][2])

\* Two cases have equal (args, kwargs) as Python compares them.
EqualInputs(a, b) == PyEqList(a.args, b.args) /\ PyEqDict(a.kwargs, b.kwargs)

\* Two dicts are the same JSON object: the same keys with the same numbers
\* of the same type, in any order.
SameJsonObject(d, e) ==
    /\ Len(d) = Len(e)
    /\ \A i \in 1..Len(d) : \E j \in 1..Len(e) : d[i] = e[j]

\* Two cases have the same (args, kwargs) as JSON values: 1 and 1.0 differ.
SameJsonInputs(a, b) == a.args = b.args /\ SameJsonObject(a.kwargs, b.kwargs)

\* The cases of `cases` that no earlier case is Same with, in input order.
FirstsBy(cases, Same(_, _)) ==
    LET S == {i \in 1..Len(cases) :
                \A j \in 1..(i - 1) : ~Same(cases[j], cases[i])}
    IN  [k \in 1..Cardinality(S) |->
            cases[CHOOSE i \in S : Cardinality({j \in S : j <= i}) = k]]

\* C25 (as claimed): _deduplicate_test_cases keeps, in input order, exactly
\* the first case of each distinct (args, kwargs) pair, the result has no
\* two cases with equal (args, kwargs), and the operation applied to its
\* result returns it unchanged.
C25_FirstOfEqualInputs ==
    /\ pc \in {"deduplicated", "deduplicated_twice"} =>
          /\ dedup.uniq = FirstsBy(dedup.cases, EqualInputs)
          /\ \A i, j \in 1..Len(dedup.uniq) :
                i # j => ~EqualInputs(dedup.uniq[i], dedup.uniq[j])
    /\ pc = "deduplicated_twice" => dedup.twice = dedup.uniq

\* C25 (amended): the same with (args, kwargs) compared as JSON values,
\* which is what the code's key of JSON texts with sorted keys compares:
\* the result keeps, in input order, exactly the first case of each
\* distinct (args, kwargs), whatever name and expected are; no two of its
\* cases have the same (args, kwargs); the operation applied to its result
\* returns it unchanged.  Arguments that are equal in Python and differ as
\* JSON values (1 and 1.0) are different inputs, and keyword arguments
\* that differ in the order of their keys only are the same.
C25_FirstOfSameJsonInputs ==
    /\ pc \in {"deduplicated", "deduplicated_twice"} =>
          /\ dedup.uniq = FirstsBy(dedup.cases, SameJsonInputs)
          /\ \A i, j \in 1..Len(dedup.uniq) :
                i # j => ~SameJsonInputs(dedup.uniq[i], dedup.uniq[j])
    /\ pc = "deduplicated_twice" => dedup.twice = dedup.uniq

\* Three cases: the second has the first one's inputs, with its keyword
\* arguments in another order and another expected value, and is dropped;
\* the third has 1.0 where the first has 1 and is kept.
C25_Witness ==
    /\ pc = "deduplicated_twice"
    /\ Len(dedup.cases) = 3
    /\ dedup.cases[1].args = <<JsonNumber("int", 1)>>
    /\ dedup.cases[2].args = dedup.cases[1].args
    /\ dedup.cases[1].kwargs # <<>>
    /\ dedup.cases[2].kwargs # dedup.cases[1].kwargs
    /\ PyEqDict(dedup.cases[2].kwargs, dedup.cases[1].kwargs)
    /\ dedup.cases[2].expected # dedup.cases[1].expected
    /\ dedup.cases[3].args = <<JsonNumber("float", 1)>>
    /\ dedup.uniq = <<dedup.cases[1], dedup.cases[3]>>
    /\ dedup.twice = dedup.uniq

====
